---- MODULE Spec2Model ----
(***************************************************************************)
(* S3Store (s3storage.go): the certmagic storage backed by an S3 bucket,   *)
(* and its lock protocol built from GetObject / PutObject / DeleteObject.  *)
(*                                                                         *)
(* A string is a sequence of tokens; the token "/" is the path separator.  *)
(* The bucket is a function from the paths that hold an object to the      *)
(* object (its body and its LastModified).  Every backend call is one      *)
(* atomic step; Lock is a process that takes one step per backend call,    *)
(* the other operations make a single call and are one step each.          *)
(* Time is in seconds.                                                     *)
(***************************************************************************)
EXTENDS Integers, Sequences, FiniteSets, TLC

(* ------------------------------ bounds -------------------------------- *)
NumProcs == 2
MaxTicks == 3

(* ----------------------------- constants ------------------------------ *)
staleLockDuration == 7200
fileLockPollInterval == 1
lockFileExists == "Lock file for already exists"

Sep == "/"
prefix == <<"certmagic">>

Procs == 1..NumProcs

(* ------------------------------ inputs -------------------------------- *)
LockKeys == {<<"a">>}
KeyX == <<"x">>
\* the value key that resolves to the lock marker of "a"
KeyMarker == <<"locks", Sep, "a", ".lock">>
\* the value key that resolves to the path createLockFile's Exists reads
KeyShadow == <<"certmagic", Sep, "locks", Sep, "a", ".lock">>
EnvKeys == {KeyMarker, KeyShadow}
\* the value key that resolves to the lock marker of another key, "b"
KeyOther == <<"locks", Sep, "b", ".lock">>
FrameKeys == {KeyMarker, KeyShadow, KeyOther}
EnvValues == {"v"}
StoreKeys == {KeyX, KeyMarker, KeyShadow}
Values == {"", "v"}
\* the prefixes handed to List: the empty one, one that is a key, one that is
\* the store's own prefix
ListPrefixes == {<<>>, KeyX, prefix}

(* --------------------------- key mapping ------------------------------ *)
\* filepath.Clean, for relative paths without "." and ".." elements: no doubled
\* and no trailing separator
RECURSIVE Squeeze(_)
Squeeze(s) ==
    IF Len(s) < 2 THEN s
    ELSE IF s[1] = Sep /\ s[2] = Sep THEN Squeeze(Tail(s))
    ELSE <<s[1]>> \o Squeeze(Tail(s))

DropTrailingSep(s) ==
    IF s # <<>> /\ s[Len(s)] = Sep THEN SubSeq(s, 1, Len(s) - 1) ELSE s

Clean(s) == DropTrailingSep(Squeeze(s))

\* filepath.Join of two elements
Join(a, b) ==
    Clean(IF a = <<>> THEN b ELSE IF b = <<>> THEN a ELSE a \o <<Sep>> \o b)

lockDir == Join(prefix, <<"locks">>)

\* StorageKeys.Safe: the key with its separators and ".." removed
Safe(key) == SelectSeq(key, LAMBDA t : t \notin {Sep, ".."})

\* lockFileName and Filename, computed once for the keys of the model
lockFileNameOf == [key \in LockKeys |-> Join(lockDir, Safe(key) \o <<".lock">>)]

lockFileName(key) == lockFileNameOf[key]

FilenameOf ==
    [key \in StoreKeys \cup EnvKeys \cup FrameKeys \cup ListPrefixes
                 \cup {lockFileNameOf[k] : k \in LockKeys} |->
        Join(prefix, key)]

Filename(key) == FilenameOf[key]

(* the Key each operation hands to the S3 client *)
ExistsKey(key) == Filename(key)

StoreKey(key) == Filename(key)

LoadKeyAsGiven(key) == key

LoadKey(key) == Filename(key)

DeleteKey(key) == Filename(key)

StatKey(key) == key

createLockFileKeyResolved(filename) == Filename(filename)

createLockFileKey(filename) == filename

deleteLockFileKeyResolved(keyPath) == Filename(keyPath)

deleteLockFileKey(keyPath) == keyPath

TickStep == staleLockDuration
MaxNow == MaxTicks * TickStep

VARIABLES store, now, faulty, pc, lkey, start, wake, ctxDone, obs, erred, ret,
          lastStored, clobbered, afterWrite

vars == <<store, now, faulty, pc, lkey, start, wake, ctxDone, obs, erred, ret,
          lastStored, clobbered, afterWrite>>

(* ------------------------------ backend ------------------------------- *)
\* whether a backend call may fail with an error other than NoSuchKey
FailChoices == IF faulty THEN {FALSE, TRUE} ELSE {FALSE}

GetObject(st, path, fail) ==
    IF fail THEN "IOError"
    ELSE IF path \in DOMAIN st THEN "ok" ELSE "NoSuchKey"

PutObject(st, path, body, t) ==
    [x \in (DOMAIN st) \cup {path} |->
        IF x = path THEN [body |-> body, mod |-> t] ELSE st[x]]

DeleteObject(st, path) == [x \in (DOMAIN st) \ {path} |-> st[x]]

errNoSuchKey(out) == out = "NoSuchKey"

\* Exists, lines 90-94: true when GetObject succeeded, else !errors.As(err, &nsk)
ExistsResultDroppedNot(out) == IF out = "ok" THEN TRUE ELSE errNoSuchKey(out)

ExistsResult(out) == IF out = "ok" THEN TRUE ELSE ~errNoSuchKey(out)

fileLockIsStale(modified, t) == t - modified > staleLockDuration

\* Lock, line 233: time.Since(start) > staleLockDuration*2
DeadlockGuard(t, st) == t - st > staleLockDuration * 2

\* deleteLockFile, lines 287-297: the store afterwards and the error returned
deleteLockFileStrict(st, keyPath, fail) ==
    IF fail \/ deleteLockFileKey(keyPath) \notin DOMAIN st
    THEN [store |-> st, err |-> IF fail THEN "IOError" ELSE "NoSuchKey"]
    ELSE [store |-> DeleteObject(st, deleteLockFileKey(keyPath)), err |-> "nil"]

deleteLockFile(st, keyPath, fail) ==
    IF fail THEN [store |-> st, err |-> "IOError"]
    ELSE [store |-> DeleteObject(st, deleteLockFileKey(keyPath)), err |-> "nil"]

(* ------------------------- observation state -------------------------- *)
NoRet ==
    [op |-> "none", proc |-> 0, key |-> <<>>, res |-> "", bk |-> "",
     val |-> "", obs |-> "none", late |-> FALSE, list |-> {}, owner |-> FALSE,
     size |-> 0]

\* the return of a value-store call
RetV(op, k, res, bk, val) ==
    [op |-> op, proc |-> 0, key |-> k, res |-> res, bk |-> bk,
     val |-> val, obs |-> "none", late |-> FALSE, list |-> {}, owner |-> FALSE,
     size |-> 0]

MarkerFresh(st, t, k) ==
    /\ lockFileName(k) \in DOMAIN st
    /\ ~fileLockIsStale(st[lockFileName(k)].mod, t)

MarkerStale(st, t, k) ==
    /\ lockFileName(k) \in DOMAIN st
    /\ fileLockIsStale(st[lockFileName(k)].mod, t)

\* obs[q] = "fresh": a fresh marker has been present ever since q's Lock began
\* obs[q] = "stale": the marker was stale when q's Lock began
\* obs[q] = "reclaimed": it was stale then, and q has deleted a stale marker since
ObsKeep(q, st, t) ==
    IF obs[q] = "fresh" /\ ~MarkerFresh(st, t, lkey[q]) THEN "none" ELSE obs[q]

ObsAll(st, t) == [q \in Procs |-> ObsKeep(q, st, t)]

ObsSet(st, t, p, v) == [q \in Procs |-> IF q = p THEN v ELSE ObsKeep(q, st, t)]

\* the return of Lock by process p
RetP(op, p, res, bk) ==
    [op |-> op, proc |-> p, key |-> lkey[p], res |-> res, bk |-> bk, val |-> "",
     obs |-> obs[p], late |-> DeadlockGuard(now, start[p]), list |-> {},
     owner |-> FALSE, size |-> 0]

\* lastStored[k] = <<v>>: the last Store or Delete on k was Store(k, v), and it
\* returned ok.  clobbered[k]: since then the object at Filename(k) has been
\* written or deleted by another operation.
ClobberBy(path) ==
    [k \in DOMAIN clobbered |-> clobbered[k] \/ Filename(k) = path]

ClobberByKey(key) ==
    [x \in DOMAIN clobbered |->
        IF x = key THEN FALSE ELSE clobbered[x] \/ Filename(x) = Filename(key)]

Remember(key, h) ==
    [x \in DOMAIN lastStored |-> IF x = key THEN h ELSE lastStored[x]]

\* afterWrite[p]: p made the existence check of its Lock while another process
\* held the lock and the marker was fresh, and a fresh marker has been present
\* ever since
AfterWriteKeep(st, t) ==
    [p \in Procs |-> afterWrite[p] /\ MarkerFresh(st, t, lkey[p])]

InLock == {"exists", "put", "stat", "delete", "sleep"}

\* process p leaves Lock (or Unlock) for `to`; the call's locals die
Leave(p, to) ==
    /\ pc' = [pc EXCEPT ![p] = to]
    /\ start' = [start EXCEPT ![p] = 0]
    /\ wake' = [wake EXCEPT ![p] = 0]
    /\ ctxDone' = [ctxDone EXCEPT ![p] = FALSE]
    /\ erred' = [erred EXCEPT ![p] = FALSE]

\* process p goes on inside Lock; failed: its backend call has just failed
Goto(p, to, failed) ==
    /\ pc' = [pc EXCEPT ![p] = to]
    /\ erred' = [erred EXCEPT ![p] = erred[p] \/ failed]
    /\ UNCHANGED <<start, wake, ctxDone>>

(* ------------------------------- Init --------------------------------- *)
InitProcs ==
    /\ now = 0
    /\ pc = [p \in Procs |-> "idle"]
    /\ lkey = [p \in Procs |-> <<"a">>]
    /\ start = [p \in Procs |-> 0]
    /\ wake = [p \in Procs |-> 0]
    /\ ctxDone = [p \in Procs |-> FALSE]
    /\ obs = [p \in Procs |-> "none"]
    /\ erred = [p \in Procs |-> FALSE]
    /\ afterWrite = [p \in Procs |-> FALSE]
    /\ ret = NoRet

Init ==
    /\ store = <<>>
    /\ faulty = FALSE
    /\ lastStored = <<>>
    /\ clobbered = <<>>
    /\ InitProcs

(* ------------------------------- Lock --------------------------------- *)
\* Lock, lines 198-199: start := time.Now(); lockFile := s.lockFileName(key)
Lock(p, k) ==
    /\ pc[p] = "idle"
    /\ pc' = [pc EXCEPT ![p] = "exists"]
    /\ lkey' = [lkey EXCEPT ![p] = k]
    /\ start' = [start EXCEPT ![p] = now]
    /\ obs' = ObsSet(store, now, p,
                     IF MarkerFresh(store, now, k) THEN "fresh"
                     ELSE IF MarkerStale(store, now, k) THEN "stale" ELSE "none")
    /\ ret' = NoRet
    /\ UNCHANGED <<store, now, faulty, wake, ctxDone, erred, lastStored, clobbered>>
    /\ afterWrite' = [AfterWriteKeep(store, now) EXCEPT ![p] = FALSE]

\* s.Exists(key), lines 84-95: the outcome of its GetObject
ExistsOut(st, key, fail) == GetObject(st, ExistsKey(key), fail)

LockReturnsEveryError(err) == TRUE

\* Lock, line 208: err.Error() != lockFileExists, the error is returned
LockReturnsError(err) == err # lockFileExists

\* createLockFile, lines 270-273: exists := s.Exists(filename), and Lock,
\* lines 203-215, on what createLockFile returns before its PutObject
createLockFileExists(p) ==
    /\ pc[p] = "exists"
    /\ \E fail \in FailChoices :
         LET err == IF ExistsResult(ExistsOut(store, lockFileName(lkey[p]), fail))
                    THEN lockFileExists ELSE "nil"
         IN  IF err = "nil"
             THEN /\ Goto(p, "put", fail)
                  /\ ret' = NoRet
                  /\ obs' = obs
             ELSE IF LockReturnsError(err)
             THEN /\ ret' = RetP("Lock", p, "createErr", err)
                  /\ obs' = ObsSet(store, now, p, "none")
                  /\ Leave(p, "idle")
             ELSE /\ Goto(p, "stat", fail)
                  /\ ret' = NoRet
                  /\ obs' = obs
    /\ UNCHANGED <<store, now, faulty, lkey, lastStored, clobbered>>
    /\ afterWrite' = [afterWrite EXCEPT ![p] =
                         /\ MarkerFresh(store, now, lkey[p])
                         /\ \E q \in Procs \ {p} :
                               pc[q] = "held" /\ lkey[q] = lkey[p]]

\* createLockFile, lines 274-284, and Lock, lines 203-213
createLockFilePut(p) ==
    /\ pc[p] = "put"
    /\ \E fail \in FailChoices :
         IF fail
         THEN /\ ret' = RetP("Lock", p, "createErr", "IOError")
              /\ obs' = ObsSet(store, now, p, "none")
              /\ Leave(p, "idle")
              /\ UNCHANGED <<store, clobbered>>
         ELSE /\ store' = PutObject(store, createLockFileKey(lockFileName(lkey[p])),
                                    "lock", now)
              /\ ret' = RetP("Lock", p, "ok", "ok")
              /\ obs' = ObsSet(store', now, p, "none")
              /\ clobbered' = ClobberBy(createLockFileKey(lockFileName(lkey[p])))
              /\ Leave(p, "held")
    /\ UNCHANGED <<now, faulty, lkey, lastStored>>
    /\ afterWrite' = AfterWriteKeep(store', now)

\* s.Stat(key), lines 170-187: the outcome of its GetObject
StatOut(st, key, fail) == GetObject(st, StatKey(key), fail)

StatBranchGuardFirst(out, stale, late) ==
    IF errNoSuchKey(out) THEN "retry"
    ELSE IF out # "ok" THEN "statErr"
    ELSE IF late THEN "deadlock"
    ELSE IF stale THEN "delete"
    ELSE "sleep"

\* Lock, lines 218-243: the cases of the switch, in their order
StatBranch(out, stale, late) ==
    IF errNoSuchKey(out) THEN "retry"
    ELSE IF out # "ok" THEN "statErr"
    ELSE IF stale THEN "delete"
    ELSE IF late THEN "deadlock"
    ELSE "sleep"

\* Lock, lines 217-243: the switch on the Stat of the lock file
LockStat(p) ==
    /\ pc[p] = "stat"
    /\ \E fail \in FailChoices :
         LET lockFile == lockFileName(lkey[p])
             out == StatOut(store, lockFile, fail)
             branch == StatBranch(out,
                                  fileLockIsStale(store[StatKey(lockFile)].mod, now),
                                  DeadlockGuard(now, start[p]))
         IN  CASE branch = "retry" ->
                    /\ Goto(p, "exists", FALSE)
                    /\ ret' = NoRet
                    /\ obs' = obs
               [] branch = "statErr" ->
                    /\ ret' = RetP("Lock", p, "statErr", out)
                    /\ obs' = ObsSet(store, now, p, "none")
                    /\ Leave(p, "idle")
               [] branch = "delete" ->
                    /\ Goto(p, "delete", FALSE)
                    /\ ret' = NoRet
                    /\ obs' = obs
               [] branch = "deadlock" ->
                    /\ ret' = RetP("Lock", p, "deadlock", out)
                    /\ obs' = ObsSet(store, now, p, "none")
                    /\ Leave(p, "idle")
               [] OTHER ->
                    /\ pc' = [pc EXCEPT ![p] = "sleep"]
                    /\ wake' = [wake EXCEPT ![p] = now + fileLockPollInterval]
                    /\ ret' = NoRet
                    /\ obs' = obs
                    /\ UNCHANGED <<start, ctxDone, erred>>
    /\ UNCHANGED <<store, now, faulty, lkey, lastStored, clobbered, afterWrite>>

LockReturnsFailedDelete(err) == err # "nil"

\* Lock, line 230: the error of s.deleteLockFile(lockFile) is not looked at
LockReturnsDeleteError(err) == FALSE

\* Lock, lines 227-231: s.deleteLockFile(lockFile), then continue.  ret holds
\* what deleteLockFile returned.
LockDeleteStale(p) ==
    /\ pc[p] = "delete"
    /\ \E fail \in FailChoices :
         LET d == deleteLockFile(store, lockFileName(lkey[p]), fail)
         IN  /\ store' = d.store
             /\ clobbered' = IF d.err = "nil"
                             THEN ClobberBy(deleteLockFileKey(lockFileName(lkey[p])))
                             ELSE clobbered
             /\ IF LockReturnsDeleteError(d.err)
                THEN /\ ret' = RetP("Lock", p, "deleteErr", d.err)
                     /\ obs' = ObsSet(store', now, p, "none")
                     /\ Leave(p, "idle")
                ELSE /\ ret' = RetP("deleteLockFile", p, d.err,
                                    IF fail THEN "IOError" ELSE "ok")
                     /\ obs' = ObsSet(store', now, p,
                                      IF obs[p] = "stale" /\ d.err = "nil"
                                            /\ MarkerStale(store, now, lkey[p])
                                      THEN "reclaimed" ELSE ObsKeep(p, store', now))
                     /\ Goto(p, "exists", FALSE)
    /\ UNCHANGED <<now, faulty, lkey, lastStored>>
    /\ afterWrite' = AfterWriteKeep(store', now)

\* Lock, line 241: time.Sleep(fileLockPollInterval) is over
LockWake(p) ==
    /\ pc[p] = "sleep"
    /\ now >= wake[p]
    /\ pc' = [pc EXCEPT ![p] = "exists"]
    /\ wake' = [wake EXCEPT ![p] = 0]
    /\ ret' = NoRet
    /\ UNCHANGED <<store, now, faulty, lkey, start, ctxDone, obs, erred,
                   lastStored, clobbered, afterWrite>>

\* the caller cancels the context it passed to Lock (line 197: ctx)
Cancel(p) ==
    /\ pc[p] = "sleep"
    /\ ~ctxDone[p]
    /\ ctxDone' = [ctxDone EXCEPT ![p] = TRUE]
    /\ ret' = NoRet
    /\ UNCHANGED <<store, now, faulty, pc, lkey, start, wake, obs, erred,
                   lastStored, clobbered, afterWrite>>

UnlockDeletesIfOwner(owner) == owner

\* Unlock, line 249: the delete is made whoever the caller is
UnlockDeletes(owner) == TRUE

\* Unlock, lines 248-250.  ret.obs tells whether the marker was there before,
\* ret.owner whether the caller held the lock.
Unlock(p, k) ==
    /\ pc[p] \in {"idle", "held"}
    /\ lkey' = [lkey EXCEPT ![p] = k]
    /\ \E fail \in FailChoices :
         LET d == IF UnlockDeletes(pc[p] = "held")
                  THEN deleteLockFile(store, lockFileName(k), fail)
                  ELSE [store |-> store, err |-> "nil"]
         IN  /\ store' = d.store
             /\ clobbered' = IF d.err = "nil"
                             THEN ClobberBy(deleteLockFileKey(lockFileName(k)))
                             ELSE clobbered
             /\ ret' = [op |-> "Unlock", proc |-> p, key |-> k,
                        res |-> IF d.err = "nil" THEN "ok" ELSE d.err,
                        bk |-> IF fail THEN "IOError" ELSE "ok", val |-> "",
                        obs |-> IF lockFileName(k) \in DOMAIN store
                                THEN "present" ELSE "absent",
                        late |-> FALSE, list |-> {}, owner |-> pc[p] = "held",
                        size |-> 0]
             /\ obs' = ObsSet(store', now, p, "none")
    /\ Leave(p, "idle")
    /\ UNCHANGED <<now, faulty, lastStored>>
    /\ afterWrite' = AfterWriteKeep(store', now)

\* Unlock by the process that holds the lock
UnlockHeld(p) == pc[p] = "held" /\ Unlock(p, lkey[p])

(* ------------------------------- time --------------------------------- *)
Tick ==
    /\ now + TickStep <= MaxNow
    /\ now' = now + TickStep
    /\ obs' = ObsAll(store, now')
    /\ ret' = NoRet
    /\ UNCHANGED <<store, faulty, pc, lkey, start, wake, ctxDone, erred,
                   lastStored, clobbered>>
    /\ afterWrite' = AfterWriteKeep(store, now')

(* ---------------------------- value store ----------------------------- *)
\* Store, lines 98-111
Store(k, v) ==
    /\ \E fail \in FailChoices :
         /\ store' = IF fail THEN store ELSE PutObject(store, StoreKey(k), v, now)
         /\ ret' = RetV("Store", k, IF fail THEN "IOError" ELSE "ok",
                        IF fail THEN "IOError" ELSE "ok", v)
         /\ lastStored' = Remember(k, IF fail THEN <<>> ELSE <<v>>)
         /\ clobbered' = IF fail THEN clobbered ELSE ClobberByKey(k)
         /\ obs' = ObsAll(store', now)
    /\ UNCHANGED <<now, faulty, pc, lkey, start, wake, ctxDone, erred>>
    /\ afterWrite' = AfterWriteKeep(store', now)

\* Load, lines 114-129
Load(k) ==
    /\ \E fail \in FailChoices :
         LET out == GetObject(store, LoadKey(k), fail)
         IN  ret' = RetV("Load", k, out, out,
                         IF out = "ok" THEN store[LoadKey(k)].body ELSE "")
    /\ UNCHANGED <<store, now, faulty, pc, lkey, start, wake, ctxDone, obs, erred,
                   lastStored, clobbered, afterWrite>>

\* Delete, lines 132-142
Delete(k) ==
    /\ \E fail \in FailChoices :
         /\ store' = IF fail THEN store ELSE DeleteObject(store, DeleteKey(k))
         /\ ret' = RetV("Delete", k, IF fail THEN "IOError" ELSE "ok",
                        IF fail THEN "IOError" ELSE "ok", "")
         /\ clobbered' = IF fail THEN clobbered ELSE ClobberByKey(k)
         /\ obs' = ObsAll(store', now)
    /\ lastStored' = Remember(k, <<>>)
    /\ UNCHANGED <<now, faulty, pc, lkey, start, wake, ctxDone, erred>>
    /\ afterWrite' = AfterWriteKeep(store', now)

\* Exists, lines 84-95
Exists(k) ==
    /\ \E fail \in FailChoices :
         LET out == ExistsOut(store, k, fail)
         IN  ret' = RetV("Exists", k, IF ExistsResult(out) THEN "true" ELSE "false",
                         out, "")
    /\ UNCHANGED <<store, now, faulty, pc, lkey, start, wake, ctxDone, obs, erred,
                   lastStored, clobbered, afterWrite>>

\* the length of an object's body, in bytes
ContentLength(body) == Len(body)

\* Stat, lines 170-187, called on a key of the value store
Stat(k) ==
    /\ \E fail \in FailChoices :
         LET out == StatOut(store, k, fail)
         IN  ret' = [RetV("Stat", k, out, out, "")
                       EXCEPT !.size = IF out = "ok"
                                       THEN ContentLength(store[StatKey(k)].body)
                                       ELSE 0]
    /\ UNCHANGED <<store, now, faulty, pc, lkey, start, wake, ctxDone, obs, erred,
                   lastStored, clobbered, afterWrite>>

\* strings.HasPrefix
HasPrefix(str, pre) == Len(pre) <= Len(str) /\ SubSeq(str, 1, Len(pre)) = pre

\* ListObjects with Prefix: the keys of the bucket that start with it
ListObjects(st, pre) == {x \in DOMAIN st : HasPrefix(x, pre)}

ListKeepAll(path, pre) == TRUE

\* List, line 161: strings.HasPrefix(*k.Key, prefix), on the prefix as given
ListKeep(path, pre) == HasPrefix(path, pre)

\* List, lines 148-167: the keys it returns when ListObjects succeeds
ListResult(st, pre, recursive) ==
    {x \in ListObjects(st, Filename(pre)) : ListKeep(x, pre)}

List(pre, recursive) ==
    /\ \E fail \in FailChoices :
         ret' = [RetV("List", pre, IF fail THEN "IOError" ELSE "ok",
                      IF fail THEN "IOError" ELSE "ok", "")
                   EXCEPT !.list = IF fail THEN {}
                                   ELSE ListResult(store, pre, recursive)]
    /\ UNCHANGED <<store, now, faulty, pc, lkey, start, wake, ctxDone, obs, erred,
                   lastStored, clobbered, afterWrite>>

(* --------------------------- specifications --------------------------- *)
\* the steps of one Lock call
LockStep(p) ==
    \/ \E k \in LockKeys : Lock(p, k)
    \/ createLockFileExists(p)
    \/ createLockFilePut(p)
    \/ LockStat(p)
    \/ LockDeleteStale(p)
    \/ LockWake(p)

\* Spec: the lock protocol on a backend that does not fail, with third parties
\* writing and deleting the two objects it reads, and time passing
Next ==
    \/ \E p \in Procs : LockStep(p)
    \/ \E p \in Procs : Cancel(p)
    \/ \E p \in Procs, k \in LockKeys : Unlock(p, k)
    \/ Tick
    \/ \E k \in EnvKeys, v \in EnvValues : Store(k, v)
    \/ \E k \in EnvKeys : Delete(k)

Spec == Init /\ [][Next]_vars

\* SpecFaulty: one process locking and unlocking on a backend whose calls may fail
InitFaulty ==
    /\ store = <<>>
    /\ faulty = TRUE
    /\ lastStored = <<>>
    /\ clobbered = <<>>
    /\ InitProcs

NextFaulty ==
    \/ LockStep(1)
    \/ \E k \in LockKeys : Unlock(1, k)
    \/ Tick
    \/ \E k \in EnvKeys, v \in EnvValues : Store(k, v)
    \/ \E k \in EnvKeys : Delete(k)

SpecFaulty == InitFaulty /\ [][NextFaulty]_vars

\* SpecStore: the value store on a backend whose calls may fail, beside one
\* process locking and unlocking, within one instant (no time passes, so a
\* Lock that goes to sleep stays asleep)
InitStore ==
    /\ store = <<>>
    /\ faulty = TRUE
    /\ lastStored = [k \in StoreKeys |-> <<>>]
    /\ clobbered = [k \in StoreKeys |-> FALSE]
    /\ InitProcs

NextStore ==
    \/ \E k \in StoreKeys, v \in Values : Store(k, v)
    \/ \E k \in StoreKeys : Load(k)
    \/ \E k \in StoreKeys : Delete(k)
    \/ \E k \in StoreKeys : Exists(k)
    \/ \E pre \in ListPrefixes, recursive \in BOOLEAN : List(pre, recursive)
    \/ \E k \in StoreKeys : Stat(k)
    \/ \E k \in LockKeys : Lock(1, k)
    \/ createLockFileExists(1)
    \/ createLockFilePut(1)
    \/ LockStat(1)
    \/ \E k \in LockKeys : Unlock(1, k)

SpecStore == InitStore /\ [][NextStore]_vars

\* SpecLive: processes that lock, then unlock, for ever, on a backend that does
\* not fail; a marker may be left over from before.  Each process is scheduled
\* fairly.
InitLive ==
    /\ store \in {<<>>, PutObject(<<>>, lockFileName(<<"a">>), "lock", 0)}
    /\ faulty = FALSE
    /\ lastStored = <<>>
    /\ clobbered = <<>>
    /\ InitProcs

LiveStep(p) ==
    \/ \E k \in LockKeys : Lock(p, k)
    \/ createLockFileExists(p)
    \/ createLockFilePut(p)
    \/ UnlockHeld(p)

NextLive ==
    \/ \E p \in Procs : LiveStep(p)
    \/ Tick

SpecLive == InitLive /\ [][NextLive]_vars /\ \A p \in Procs : WF_vars(LiveStep(p))

(* ------------------------------ claims -------------------------------- *)
\* SpecFrame: one process locking and unlocking "a" on a backend whose calls may
\* fail, among objects that the value store writes and deletes
InitFrame ==
    /\ store = <<>>
    /\ faulty = TRUE
    /\ lastStored = [k \in FrameKeys |-> <<>>]
    /\ clobbered = <<>>
    /\ InitProcs

NextFrame ==
    \/ LockStep(1)
    \/ \E k \in LockKeys : Unlock(1, k)
    \/ Tick
    \/ \E k \in FrameKeys, v \in EnvValues : Store(k, v)
    \/ \E k \in FrameKeys : Delete(k)

SpecFrame == InitFrame /\ [][NextFrame]_vars

\* C1: a creation attempt that finds an object at lockMarkerPath(k) writes
\* nothing and reports "already exists"; so a Lock(k) during which a fresh
\* marker was present all along does not return ok.
C1_ConditionalExclusive ==
    /\ [][\A p \in Procs :
            (/\ pc[p] = "exists"
             /\ pc'[p] # "exists"
             /\ lockFileName(lkey[p]) \in DOMAIN store)
            => (pc'[p] = "stat" /\ store' = store)]_vars
    /\ [](ret.op = "Lock" /\ ret.res = "ok" => ret.obs # "fresh")

\* C2: in the state in which Lock(k) returns ok an object exists at
\* lockMarkerPath(k); in the state in which Unlock(k) returns ok none does.
C2_MarkerAfterLockAndUnlock ==
    /\ (ret.op = "Lock" /\ ret.res = "ok") => lockFileName(ret.key) \in DOMAIN store
    /\ (ret.op = "Unlock" /\ ret.res = "ok") => lockFileName(ret.key) \notin DOMAIN store

C2_Witness ==
    /\ ret.op = "Lock"
    /\ ret.res = "ok"
    /\ lockFileName(ret.key) \in DOMAIN store

\* C3: a Lock whose context was cancelled while it slept on a fresh marker
\* returns the cancellation error when the sleep ends.
C3_CancelStopsLock ==
    [][\A p \in Procs :
         (pc[p] = "sleep" /\ ctxDone[p] /\ pc'[p] # "sleep")
         => (pc'[p] = "idle" /\ ret'.op = "Lock" /\ ret'.proc = p
                /\ ret'.res = "cancelled")]_vars

\* C4: a Lock(k) that returns more than 2 * staleLockDuration after it began,
\* a fresh marker having been present all that time, returns the deadlock error.
C4_DeadlockGuard ==
    (ret.op = "Lock" /\ ret.obs = "fresh" /\ ret.late) => ret.res = "deadlock"

\* C5: a Lock(k) that began with a stale marker returns ok, having deleted the
\* stale marker.
C5_StaleReclaimed ==
    (ret.op = "Lock" /\ ret.obs \in {"stale", "reclaimed"})
    => (ret.res = "ok" /\ ret.obs = "reclaimed")

\* C6: Unlock(k) on a key that has no marker (never locked, or just unlocked)
\* returns ok and leaves no marker.
C6_UnlockIdempotent ==
    (ret.op = "Unlock" /\ ret.obs = "absent")
    => (ret.res = "ok" /\ lockFileName(ret.key) \notin DOMAIN store)

C6_Witness ==
    /\ ret.op = "Unlock"
    /\ ret.obs = "absent"
    /\ ret.res = "ok"

\* C7: under fair scheduling on a backend that does not fail, every Lock that
\* has begun returns ok, and every process that holds the lock completes Unlock.
C7_NoStarvation ==
    \A p \in Procs :
        /\ (pc[p] \in InLock) ~> (pc[p] = "held")
        /\ (pc[p] = "held")
              ~> (ret.op = "Unlock" /\ ret.proc = p /\ ret.res = "ok")

\* both processes hold the lock at once: each saw no object and each wrote
C7_Witness == \A p \in Procs : pc[p] = "held"

\* C8: a Lock does not go on after one of its backend calls (the existence
\* check, the marker write, the stat) failed with an error other than not-found.
C8_BackendFailureIsFatal == \A p \in Procs : ~erred[p]

\* C9: Exists(key) is true iff an object exists at resourcePath(key), and it is
\* false when the backend read fails with an error other than not-found.
C9_ExistsIffPresent ==
    ret.op = "Exists"
    => /\ ret.bk # "IOError"
            => ((ret.res = "true") <=> (Filename(ret.key) \in DOMAIN store))
       /\ ret.bk = "IOError" => ret.res = "false"

\* C10 as stated: Load(k) after a Store(k, v) that returned ok, with no Store
\* or Delete on k in between, returns v.
C10_RoundTripAsStated ==
    (ret.op = "Load" /\ ret.bk # "IOError" /\ lastStored[ret.key] # <<>>)
    => (ret.res = "ok" /\ ret.val = lastStored[ret.key][1])

\* C10 amended: ... and with no other write or delete of the object at
\* resourcePath(k) in between.
C10_RoundTrip ==
    (/\ ret.op = "Load"
     /\ ret.bk # "IOError"
     /\ lastStored[ret.key] # <<>>
     /\ ~clobbered[ret.key])
    => (ret.res = "ok" /\ ret.val = lastStored[ret.key][1])

\* the empty payload read back
C10_Witness ==
    /\ ret.op = "Load"
    /\ ret.res = "ok"
    /\ ret.val = ""
    /\ lastStored[ret.key] = <<"">>
    /\ ~clobbered[ret.key]

C12_AlreadyExistsStaysInside ==
    /\ [][\A p \in Procs :
            (pc[p] = "exists" /\ pc'[p] \notin {"exists", "put"})
            => (pc'[p] = "stat" /\ ret'.op # "Lock")]_vars
    /\ [](ret.op = "Lock"
            => /\ ret.res \in {"ok", "createErr", "statErr", "deadlock"}
               /\ ret.bk # lockFileExists)

\* the creation attempt found an object and Lock is about to stat the marker
C12_Witness == \E p \in Procs : pc[p] = "stat" /\ ~erred[p]

\* C13: two processes hold the lock at once only if each made its existence
\* check before the other wrote: no process holds it beside another after an
\* existence check made when the other had written a marker that has been
\* fresh ever since.
C13_DoubleHoldOnlyInWindow ==
    \A p \in Procs : \A q \in Procs \ {p} :
        ~(pc[p] = "held" /\ pc[q] = "held" /\ lkey[p] = lkey[q] /\ afterWrite[p])

\* C14: Unlock(k) by a process that does not hold the lock returns ok with the
\* marker deleted, whoever holds the lock; and the write of a creation attempt
\* succeeds and makes its process a holder, whoever else holds the lock.
C14_UnlockChecksNoOwnership ==
    /\ []((ret.op = "Unlock" /\ ~ret.owner /\ ret.res = "ok")
            => lockFileName(ret.key) \notin DOMAIN store)
    /\ [][\A p \in Procs :
            (pc[p] = "put" /\ pc'[p] # "put")
            => /\ pc'[p] = "held"
               /\ ret'.op = "Lock" /\ ret'.proc = p /\ ret'.res = "ok"
               /\ lockFileName(ret'.key) \in DOMAIN store']_vars

\* a process that does not hold the lock has just removed the holder's marker
C14_Witness ==
    /\ ret.op = "Unlock"
    /\ ~ret.owner
    /\ ret.res = "ok"
    /\ ret.obs = "present"
    /\ \E q \in Procs \ {ret.proc} : pc[q] = "held" /\ lkey[q] = ret.key

\* C15: every backend call that Lock(k) and Unlock(k) make (the existence check,
\* the marker write, the stat, the delete of a stale marker, the delete of the
\* release) addresses the one path <prefix>/locks/<Safe(k)>.lock.
C15_OneMarkerPath ==
    /\ \A p \in Procs :
          LET lockFile == lockFileName(lkey[p])
          IN  /\ lockFile = prefix \o <<Sep, "locks", Sep>> \o Safe(lkey[p])
                                   \o <<".lock">>
              /\ pc[p] = "exists" => ExistsKey(lockFile) = lockFile
              /\ pc[p] = "put" => createLockFileKey(lockFile) = lockFile
              /\ pc[p] = "stat" => StatKey(lockFile) = lockFile
              /\ pc[p] = "delete" => deleteLockFileKey(lockFile) = lockFile
    /\ ret.op = "Unlock"
       => deleteLockFileKey(lockFileName(ret.key)) = lockFileName(ret.key)

\* C16: Stat(k) after a Store(k, v) that returned ok, the object not having
\* been deleted or rewritten since, returns the info of that object: key k and
\* size the length of v, and no not-found error.
C16_StatSeesStored ==
    (/\ ret.op = "Stat"
     /\ ret.bk # "IOError"
     /\ lastStored[ret.key] # <<>>
     /\ ~clobbered[ret.key])
    => (ret.res = "ok" /\ ret.size = ContentLength(lastStored[ret.key][1]))

\* C17: a Lock goes to sleep only from its stat, and only when the marker is
\* there, fresh, and no more than 2 * staleLockDuration have passed since the
\* Lock began; when the stat finds no marker the Lock goes back to the creation
\* attempt without a sleep; when it finds a stale marker the Lock goes on to
\* delete it, however long ago the Lock began, and from the delete back to the
\* creation attempt without a sleep.
C17_SleepOnlyOnFreshMarker ==
    [][\A p \in Procs :
         /\ (pc[p] # "sleep" /\ pc'[p] = "sleep")
            => /\ pc[p] = "stat"
               /\ MarkerFresh(store, now, lkey[p])
               /\ now - start[p] <= 2 * staleLockDuration
               /\ wake'[p] = now + fileLockPollInterval
         /\ (pc[p] = "stat" /\ pc'[p] # "stat")
            => /\ lockFileName(lkey[p]) \notin DOMAIN store => pc'[p] = "exists"
               /\ MarkerStale(store, now, lkey[p]) => pc'[p] = "delete"
         /\ (pc[p] = "delete" /\ pc'[p] # "delete") => pc'[p] = "exists"]_vars

\* a Lock that began more than 2 * staleLockDuration ago has found the marker
\* stale and is about to delete it
C17_Witness ==
    \E p \in Procs :
        /\ pc[p] = "delete"
        /\ now - start[p] > 2 * staleLockDuration
        /\ MarkerStale(store, now, lkey[p])

\* C18: the delete of a stale marker by Lock is never the end of the Lock: when
\* it fails, its error is dropped and the Lock goes back to the creation attempt.
C18_StaleDeleteErrorSwallowed ==
    [][\A p \in Procs :
         (pc[p] = "delete" /\ pc'[p] # "delete")
         => /\ pc'[p] = "exists"
            /\ ret'.op = "deleteLockFile"
            /\ ret'.proc = p
            /\ ret'.res # "nil" => store' = store]_vars

\* the delete of the stale marker has just failed, and the Lock is back at its
\* creation attempt
C18_Witness ==
    /\ ret.op = "deleteLockFile"
    /\ ret.res = "IOError"
    /\ pc[ret.proc] = "exists"
    /\ MarkerStale(store, now, ret.key)

\* C19: whenever a Lock deletes the object at lockFileName(k), that object is
\* stale at the moment of the delete.
C19_LockDeletesOnlyStale ==
    [][\A p \in Procs :
         (/\ pc[p] = "delete"
          /\ pc'[p] # "delete"
          /\ lockFileName(lkey[p]) \in DOMAIN store
          /\ lockFileName(lkey[p]) \notin DOMAIN store')
         => MarkerStale(store, now, lkey[p])]_vars

\* the objects that a step of Lock or Unlock leaves as they were
Untouched(path) ==
    /\ path \in DOMAIN store
    /\ path \in DOMAIN store'
    /\ store'[path] = store[path]

\* C20 as stated: a step of Lock(k) or Unlock(k) creates, overwrites or deletes
\* no object but the one at lockFileName(k), and leaves every object that Store
\* wrote as it was.
C20_FrameAsStated ==
    [][ret'.op \notin {"Store", "Delete"}
       => /\ \A path \in (DOMAIN store \cup DOMAIN store')
                            \ {lockFileName(k) : k \in LockKeys} : Untouched(path)
          /\ \A key \in DOMAIN lastStored :
                (lastStored[key] # <<>> /\ Filename(key) \in DOMAIN store)
                => Untouched(Filename(key))]_vars

\* C20 amended: ... and leaves every object that Store wrote at another path
\* than lockFileName(k) as it was.
C20_Frame ==
    [][ret'.op \notin {"Store", "Delete"}
       => /\ \A path \in (DOMAIN store \cup DOMAIN store')
                            \ {lockFileName(k) : k \in LockKeys} : Untouched(path)
          /\ \A key \in DOMAIN lastStored :
                (/\ lastStored[key] # <<>>
                 /\ Filename(key) \in DOMAIN store
                 /\ Filename(key) \notin {lockFileName(k) : k \in LockKeys})
                => Untouched(Filename(key))]_vars

\* an Unlock has just deleted the marker of "a"; the marker of "b" and the
\* object that createLockFile's Exists reads are there
C20_Witness ==
    /\ ret.op = "Unlock"
    /\ ret.res = "ok"
    /\ ret.obs = "present"
    /\ lastStored[KeyOther] # <<>>
    /\ Filename(KeyOther) \in DOMAIN store
    /\ Filename(KeyShadow) \in DOMAIN store

====
